---- MODULE Spec2Model ----
(***************************************************************************)
(* A model of the blog application of src/main.py: the three tables        *)
(* (users, blog_posts, comments), the flask-login session of one browser,  *)
(* and one action per route handler.  Every handler runs to completion     *)
(* within one request; its response is recorded in `last`.                 *)
(***************************************************************************)
EXTENDS Integers, Sequences, FiniteSets, TLC

VARIABLES
    dialect,    \* the dialect of SQLALCHEMY_DATABASE_URI
    users,      \* rows of table "users"
    posts,      \* rows of table "blog_posts"
    comments,   \* rows of table "comments"
    seq,        \* the serial sequences of the tables (postgresql only)
    session,    \* the user id flask-login keeps in the browser session
    last,       \* the last request against the store and its response
    mail        \* the last /contact request and its response

vars == <<dialect, users, posts, comments, seq, session, last, mail>>

----------------------------------------------------------------------------
(* Bounds of the model                                                     *)

MaxPostId == 2
MaxCommentId == 1

Emails == {"a@x.io", "b@x.io"}
Passwords == {1, 2}
Salts == {1, 2}
Names == {"n"}
Titles == {"t1", "t2"}
Subtitles == {"s1"}
Bodies == {"b1"}
ImgUrls == {"u1"}
Dates == {"November 05, 2026"}
CommentTexts == {"c1"}

----------------------------------------------------------------------------
(* Values                                                                  *)

\* current_user is an AnonymousUserMixin (it has no id) when nobody is logged in
Anonymous == 0
\* a nullable foreign key column holding NULL
NULL == 0
\* the id admin_only and edit_post compare current_user.id with
AdminId == 1

Dialects == {"sqlite", "postgresql"}

Max(S) == IF S = {} THEN 0 ELSE CHOOSE m \in S : \A x \in S : x <= m

Ids(table) == {r.id : r \in table}

\* Model.query.get(id): the row with that primary key, as a set of 0 or 1 rows
Get(table, id) == {r \in table : r.id = id}

----------------------------------------------------------------------------
(* werkzeug.security as used by register and login                         *)

\* the PBKDF2 digest of a password under a salt: a one-way mixing function
Pbkdf2(salt, password) == (31 * salt + 17 * password) % 97

\* generate_password_hash(password, method="pbkdf2:sha256", salt_length=16):
\* the stored string names its method and salt ("method$salt$digest")
generate_password_hash(password, salt) ==
    [method |-> "pbkdf2:sha256", salt |-> salt, digest |-> Pbkdf2(salt, password)]

\* check_password_hash that forgets to compare the digest
check_password_hash_AnyPassword(pwhash, password) ==
    pwhash.method = "pbkdf2:sha256"

\* check_password_hash(pwhash, password): recompute under the stored salt
check_password_hash(pwhash, password) ==
    /\ pwhash.method = "pbkdf2:sha256"
    /\ pwhash.digest = Pbkdf2(pwhash.salt, password)

----------------------------------------------------------------------------
(* flask-login                                                             *)

\* load_user: User.query.get(user_id); current_user is that user, or anonymous
current_user ==
    IF Get(users, session) # {} THEN session ELSE Anonymous

is_authenticated == current_user # Anonymous

\* a login_required that lets every request through
login_required_Off == TRUE

\* @login_required lets the request through to the handler
login_required == is_authenticated

\* an admin_only that lets any logged-in user through
admin_only_AnyUser == is_authenticated

\* @admin_only lets the request through: current_user.id != 1 aborts
admin_only == current_user = AdminId

\* a logout_user that leaves the user id in the session
logout_user_KeepsSession == session

\* logout_user(): the session afterwards
logout_user == Anonymous

----------------------------------------------------------------------------
(* Primary keys                                                            *)

\* The id a new row gets: sqlite's INTEGER PRIMARY KEY is one more than the
\* largest rowid in the table, postgresql's serial is the sequence's nextval.
NextId(table, name) ==
    IF dialect = "sqlite" THEN Max(Ids(table)) + 1 ELSE seq[name] + 1

\* An INSERT, committed or failed, advances a postgresql sequence.
SeqAfterInsert(name) ==
    IF dialect = "sqlite" THEN seq ELSE [seq EXCEPT ![name] = @ + 1]

--------------------------------------------------------------------------------------------------------------------------------------------------
(* Requests and responses                                                  *)

\* form.validate_on_submit() is false for a GET and for a POST whose fields
\* do not validate; the handler then reads none of the form's fields
InvalidForm == [valid |-> FALSE]

RegisterUserForm(passwords) ==
    {InvalidForm} \cup
    [valid : {TRUE}, email : Emails, password : passwords, name : Names]

LoginUserForm(passwords) ==
    {InvalidForm} \cup [valid : {TRUE}, email : Emails, password : passwords]

CreatePostForm ==
    {InvalidForm} \cup
    [valid : {TRUE}, title : Titles, subtitle : Subtitles, body : Bodies,
     img_url : ImgUrls]

CommentForm == {InvalidForm} \cup [valid : {TRUE}, comment : CommentTexts]

\* what `last` keeps of a request: the route, whether its form validated, and
\* the inputs the handler read
NoArgs == [email |-> "", password |-> 0, post_id |-> 0, title |-> "",
           repeated |-> FALSE]

Request(op, valid, args) == [op |-> op, valid |-> valid] @@ args

Response(status, flash, exc) == [status |-> status, flash |-> flash, exc |-> exc]

Rendered == Response(200, "", "")
Redirect == Response(302, "", "")
\* login_manager.unauthorized() with no login_view set: abort(401)
Unauthorized == Response(401, "", "")
\* abort(403)
Forbidden403 == Response(403, "", "")
\* an exception no handler catches: Flask answers 500
Raised(exc) == Response(500, "", exc)

Init ==
    /\ dialect \in Dialects
    /\ users = {}
    /\ posts = {}
    /\ comments = {}
    /\ seq = [users |-> 0, blog_posts |-> 0, comments |-> 0]
    /\ session = Anonymous
    /\ last = Request("init", FALSE, NoArgs) @@ Rendered
    /\ mail = [method |-> "", data |-> <<>>, is_completed |-> FALSE,
               error_field |-> <<>>, calls |-> <<>>] @@ Rendered

----------------------------------------------------------------------------
(* Identity and session                                                    *)

\* a register whose lookup of the email never finds a row
EmailRegistered_Never(email) == FALSE

\* User.query.filter_by(email=email).first() finds a row
EmailRegistered(email) == \E u \in users : u.email = email

\* /register
register(form, salt) ==
    /\ UNCHANGED <<dialect, posts, comments, mail>>
    /\ IF ~form.valid
       THEN /\ last' = Request("register", FALSE, NoArgs) @@ Rendered
            /\ UNCHANGED <<users, seq, session>>
       ELSE LET req == Request("register", TRUE,
                               [NoArgs EXCEPT !.email = form.email,
                                              !.password = form.password])
                register_user ==
                    [id |-> NextId(users, "users"),
                     email |-> form.email,
                     password |-> generate_password_hash(form.password, salt),
                     name |-> form.name]
            IN IF ~EmailRegistered(form.email)
               THEN /\ users' = users \cup {register_user}
                    /\ seq' = SeqAfterInsert("users")
                    /\ session' = register_user.id
                    /\ last' = req @@ Redirect
               ELSE /\ last' = req @@ Response(302, "user already registered, log in here", "")
                    /\ UNCHANGED <<users, seq, session>>

\* /login
login(form) ==
    /\ UNCHANGED <<dialect, users, posts, comments, seq, mail>>
    /\ IF ~form.valid
       THEN /\ last' = Request("login", FALSE, NoArgs) @@ Rendered
            /\ UNCHANGED session
       ELSE LET req == Request("login", TRUE,
                               [NoArgs EXCEPT !.email = form.email,
                                              !.password = form.password])
                logged_user == {u \in users : u.email = form.email}
            IN IF logged_user = {}
               THEN /\ last' = req @@ Response(200, "email does not exist", "")
                    /\ UNCHANGED session
               ELSE IF ~\A u \in logged_user :
                            check_password_hash(u.password, form.password)
               THEN /\ last' = req @@ Response(200, "password is not correct", "")
                    /\ UNCHANGED session
               ELSE /\ session' = (CHOOSE u \in logged_user : TRUE).id
                    /\ last' = req @@ Redirect

\* /logout, behind login_required
logout ==
    \* `repeated`: the request before this one was a logout that ended the session
    LET req == Request("logout", FALSE,
                       [NoArgs EXCEPT !.repeated = (last.op = "logout" /\ last.status = 302)])
    IN
    /\ UNCHANGED <<dialect, users, posts, comments, seq, mail>>
    /\ IF ~login_required
       THEN /\ last' = req @@ Unauthorized
            /\ UNCHANGED session
       ELSE /\ session' = logout_user
            /\ last' = req @@ Redirect

----------------------------------------------------------------------------
(* Content                                                                 *)

\* unique=True on blog_posts.title: the row a commit would write collides
\* with another row's title
TitleTaken(title, own_id) == \E p \in posts : p.title = title /\ p.id # own_id

\* /new-post, behind login_required and admin_only
add_new_post(form, today) ==
    /\ UNCHANGED <<dialect, users, comments, session, mail>>
    /\ IF ~login_required
       THEN /\ last' = Request("add_new_post", FALSE, NoArgs) @@ Unauthorized
            /\ UNCHANGED <<posts, seq>>
       ELSE IF ~admin_only
       THEN /\ last' = Request("add_new_post", FALSE, NoArgs) @@ Forbidden403
            /\ UNCHANGED <<posts, seq>>
       ELSE IF ~form.valid
       THEN /\ last' = Request("add_new_post", FALSE, NoArgs) @@ Rendered
            /\ UNCHANGED <<posts, seq>>
       ELSE LET req == Request("add_new_post", TRUE,
                               [NoArgs EXCEPT !.title = form.title])
                new_post == [id |-> NextId(posts, "blog_posts"),
                             title |-> form.title,
                             subtitle |-> form.subtitle,
                             body |-> form.body,
                             img_url |-> form.img_url,
                             author_id |-> current_user,
                             date |-> today]
            IN /\ new_post.id <= MaxPostId
               /\ seq' = SeqAfterInsert("blog_posts")
               /\ IF TitleTaken(form.title, new_post.id)
                  THEN /\ last' = req @@ Raised("IntegrityError")
                       /\ UNCHANGED posts
                  ELSE /\ posts' = posts \cup {new_post}
                       /\ last' = req @@ Redirect

\* an edit_post without the test of line 272
can_edit_Anyone(post) == TRUE

\* "only admin and post owner can edit the post": the test of line 272 passes
can_edit(post) == ~(current_user # AdminId /\ current_user # post.author_id)

\* /edit-post/<post_id>, behind login_required
edit_post(post_id, form) ==
    LET args == [NoArgs EXCEPT !.post_id = post_id]
        \* the decorator and the test of line 272 answer before the form is built
        req == Request("edit_post", FALSE, args)
        found == Get(posts, post_id)
        post == CHOOSE p \in found : TRUE
    IN
    /\ UNCHANGED <<dialect, users, comments, seq, session, mail>>
    /\ IF ~login_required
       THEN /\ last' = req @@ Unauthorized
            /\ UNCHANGED posts
       ELSE IF current_user # AdminId /\ found = {}
       THEN \* post is None: post.author_id
            /\ last' = req @@ Raised("AttributeError")
            /\ UNCHANGED posts
       ELSE IF ~can_edit(post)
       THEN /\ last' = req @@ Forbidden403
            /\ UNCHANGED posts
       ELSE IF found = {}
       THEN \* post is None: post.title
            /\ last' = req @@ Raised("AttributeError")
            /\ UNCHANGED posts
       ELSE IF ~form.valid
       THEN /\ last' = req @@ Rendered
            /\ UNCHANGED posts
       ELSE IF TitleTaken(form.title, post.id)
       THEN /\ last' = Request("edit_post", TRUE, args) @@ Raised("IntegrityError")
            /\ UNCHANGED posts
       ELSE /\ posts' = (posts \ {post}) \cup
                        {[post EXCEPT !.title = form.title,
                                      !.subtitle = form.subtitle,
                                      !.img_url = form.img_url,
                                      !.body = form.body]}
            /\ last' = Request("edit_post", TRUE, args) @@ Redirect

\* db.session.delete(post) with relationship('Comment', back_populates="post")
\* and no cascade: the unit of work sets the post_id of the post's comments
\* to NULL and deletes the post's row
CommentsAfterDelete(post_id) ==
    {IF c.post_id = post_id THEN [c EXCEPT !.post_id = NULL] ELSE c : c \in comments}

\* /delete/<post_id>, behind login_required and admin_only
delete_post(post_id) ==
    LET req == Request("delete_post", FALSE, [NoArgs EXCEPT !.post_id = post_id])
        post_to_delete == Get(posts, post_id)
    IN
    /\ UNCHANGED <<dialect, users, seq, session, mail>>
    /\ IF ~login_required
       THEN /\ last' = req @@ Unauthorized
            /\ UNCHANGED <<posts, comments>>
       ELSE IF ~admin_only
       THEN /\ last' = req @@ Forbidden403
            /\ UNCHANGED <<posts, comments>>
       ELSE IF post_to_delete = {}
       THEN \* db.session.delete(None)
            /\ last' = req @@ Raised("UnmappedInstanceError")
            /\ UNCHANGED <<posts, comments>>
       ELSE /\ posts' = posts \ post_to_delete
            /\ comments' = CommentsAfterDelete(post_id)
            /\ last' = req @@ Redirect

\* Whether the store checks comments.post_id against blog_posts.id on INSERT:
\* postgresql does, sqlite does not unless PRAGMA foreign_keys is set
EnforcesForeignKeys == dialect = "postgresql"

\* render_template("post.html", post=requested_post, form=form): the template
\* is given None for an absent post; what it makes of it is left open
RenderPost(post_id) ==
    IF Get(posts, post_id) # {} THEN {Rendered} ELSE {Rendered, Raised("UndefinedError")}

\* /post/<post_id>
show_post(post_id, form, rendered) ==
    LET req == Request("show_post", form.valid, [NoArgs EXCEPT !.post_id = post_id])
    IN
    /\ UNCHANGED <<dialect, users, posts, session, mail>>
    /\ rendered \in RenderPost(post_id)
    /\ IF ~form.valid
       THEN /\ last' = req @@ rendered
            /\ UNCHANGED <<comments, seq>>
       ELSE IF ~is_authenticated
       THEN \* the anonymous current_user has no attribute id; nothing is rendered
            /\ rendered = Rendered
            /\ last' = req @@ Raised("AttributeError")
            /\ UNCHANGED <<comments, seq>>
       ELSE LET new_comment == [id |-> NextId(comments, "comments"),
                                text |-> form.comment,
                                author_id |-> current_user,
                                post_id |-> post_id]
            IN /\ new_comment.id <= MaxCommentId
               /\ seq' = SeqAfterInsert("comments")
               /\ IF EnforcesForeignKeys /\ Get(posts, post_id) = {}
                  THEN \* the commit raises; nothing is rendered
                       /\ rendered = Rendered
                       /\ last' = req @@ Raised("IntegrityError")
                       /\ UNCHANGED comments
                  ELSE /\ comments' = comments \cup {new_comment}
                       /\ last' = req @@ rendered

--------------------------------------------------------------------------------------------------------------------------------------------------
(* Contact                                                                 *)

\* the fields of the contact form, in the order the form submits them
ContactFields == <<"name", "email", "phone_number", "message">>

\* what a field's value can be: empty, or some text
FieldValues == {"", "A"}

\* request.args / request.form: any subset of the fields, each with a value
ContactData ==
    UNION {[K -> FieldValues] : K \in SUBSET {ContactFields[i] : i \in 1 .. Len(ContactFields)}}

\* data.items(): the submitted keys with their values, in order
Items(data) == SelectSeq(ContactFields, LAMBDA k : k \in DOMAIN data)

\* the loop of lines 223-226 from item i on: is_completed and error_field
RECURSIVE Validate(_, _, _, _)
Validate(data, i, is_completed, error_field) ==
    IF i > Len(Items(data))
    THEN [is_completed |-> is_completed, error_field |-> error_field]
    ELSE IF data[Items(data)[i]] = ""
         THEN Validate(data, i + 1, FALSE, Append(error_field, Items(data)[i]))
         ELSE Validate(data, i + 1, is_completed, error_field)

\* the keys connection.sendmail's arguments read, in the order they are read
SendmailReads == <<"email", "name", "email", "phone_number", "message">>

\* /contact
contact(method, data, relay) ==
    LET checked == Validate(data, 1, TRUE, <<>>)
        req == [method |-> method, data |-> data,
                is_completed |-> checked.is_completed,
                error_field |-> checked.error_field]
    IN
    /\ UNCHANGED <<dialect, users, posts, comments, seq, session, last>>
    /\ IF ~checked.is_completed
       THEN mail' = req @@ [calls |-> <<>>] @@ Rendered
       ELSE IF relay = "refused"
       THEN \* smtplib.SMTP("smtp.gmail.com") cannot connect
            mail' = req @@ [calls |-> <<"SMTP">>] @@ Raised("SMTPConnectError")
       ELSE IF \E i \in 1 .. Len(SendmailReads) : SendmailReads[i] \notin DOMAIN data
       THEN \* data[key] of a key that was not submitted: werkzeug answers 400
            mail' = req @@ [calls |-> <<"SMTP", "starttls", "login">>]
                        @@ Response(400, "", "BadRequestKeyError")
       ELSE mail' = req @@ [calls |-> <<"SMTP", "starttls", "login", "sendmail">>]
                       @@ Rendered

------
(* Specifications                                                          *)

\* the post ids a request may name: every id a post can have, and one more
PostIds == 1 .. (MaxPostId + 1)

Identity(passwords, salts) ==
    \/ \E form \in RegisterUserForm(passwords), salt \in salts : register(form, salt)
    \/ \E form \in LoginUserForm(passwords) : login(form)
    \/ logout

Content ==
    \/ \E form \in CreatePostForm, today \in Dates : add_new_post(form, today)
    \/ \E post_id \in PostIds, form \in CreatePostForm : edit_post(post_id, form)
    \/ \E post_id \in PostIds : delete_post(post_id)
    \/ \E post_id \in PostIds, form \in CommentForm,
          rendered \in {Rendered, Raised("UndefinedError")} :
          show_post(post_id, form, rendered)

\* The store and the session under every route that reads or writes them.
\* Content does not read passwords: one password and one salt are enough here,
\* and SpecIdentity below draws them from all of Passwords and Salts.
Next == Identity({1}, {1}) \/ Content

Spec == Init /\ [][Next]_vars

\* register, login and logout alone, with every password and salt
NextIdentity == Identity(Passwords, Salts)

SpecIdentity == Init /\ [][NextIdentity]_vars

\* /contact reads and writes nothing of the store or the session
NextContact ==
    \E method \in {"GET", "POST"}, data \in ContactData, relay \in {"connected", "refused"} :
        contact(method, data, relay)

SpecContact == Init /\ [][NextContact]_vars

----------------------------------------------------------------------------
(* The error kinds of a response                                           *)

\* What a response tells its caller: the flash message of register and login,
\* or else the status the request was answered with.
ErrorKind(r) ==
    CASE r.flash = "user already registered, log in here" -> "DuplicateEmail"
      [] r.flash = "email does not exist" -> "UnknownEmail"
      [] r.flash = "password is not correct" -> "BadCredential"
      [] r.status = 400 -> "BadRequest"
      [] r.status = 401 -> "Unauthorized"
      [] r.status = 403 -> "Forbidden"
      [] r.status = 500 -> "InternalServerError"
      [] OTHER -> "None"

store == <<users, posts, comments>>

----------------------------------------------------------------------------
(* Claims                                                                  *)

\* C1, part 1: at most one User record per email exists in every reachable state.
OneUserPerEmail == \A u, v \in users : u.email = v.email => u = v

\* C1, part 2: a register call whose email is already stored fails with
\* DuplicateEmail and leaves the User records unchanged; a register call with an
\* email not yet stored succeeds and adds exactly one User, with that email.
RegisterStep ==
    (last'.op = "register" /\ last'.valid) =>
        IF \E u \in users : u.email = last'.email
        THEN /\ ErrorKind(last') = "DuplicateEmail"
             /\ users' = users
        ELSE /\ ErrorKind(last') = "None"
             /\ \E u \in users' :
                   /\ u \notin users
                   /\ u.email = last'.email
                   /\ users' = users \cup {u}

\* C1: for every sequence of register calls, a register call with a stored
\* email fails with DuplicateEmail and changes no User record, so there is at
\* most one User per email; one with a new email succeeds and adds exactly one.
C1_RegisterOncePerEmail == []OneUserPerEmail /\ [][RegisterStep]_vars

\* C1 witness: a second registration of a stored email was refused.
C1_Witness ==
    /\ last.op = "register"
    /\ ErrorKind(last) = "DuplicateEmail"
    /\ \E u \in users : u.email = last.email

\* "the stored hash verifies the password": the digest stored with the user
\* is the PBKDF2 digest of the password under the stored salt
StoredHashVerifies(u, password) ==
    u.password.digest = Pbkdf2(u.password.salt, password)

\* C2, the login step: a session is established for the User with the email
\* iff that User exists and its stored hash verifies the password; an unknown
\* email fails UnknownEmail, a wrong password fails BadCredential, and neither
\* changes the session's current actor.
LoginStep ==
    (last'.op = "login" /\ last'.valid) =>
        LET known == {u \in users : u.email = last'.email}
            verified == {u \in known : StoredHashVerifies(u, last'.password)}
        IN /\ (ErrorKind(last') = "None") <=> (verified # {})
           /\ verified # {} => \E u \in verified : session' = u.id
           /\ known = {} => ErrorKind(last') = "UnknownEmail" /\ session' = session
           /\ (known # {} /\ verified = {}) =>
                  ErrorKind(last') = "BadCredential" /\ session' = session

\* C2, the round trip: the hash register stores verifies the registered password.
RegisterRoundTrip ==
    (last'.op = "register" /\ last'.valid /\ ErrorKind(last') = "None") =>
        \E u \in users' : u.email = last'.email /\ StoredHashVerifies(u, last'.password)

\* C2: authenticate(email, password) establishes a session iff a User with the
\* email exists and the stored hash verifies the password; UnknownEmail and
\* BadCredential leave the current actor unchanged.
C2_AuthenticateIffVerified == [][LoginStep /\ RegisterRoundTrip]_vars

\* C2 witness: a login with a stored email and a wrong password was refused
\* while somebody else stayed logged in.
C2_Witness ==
    /\ last.op = "login"
    /\ ErrorKind(last) = "BadCredential"
    /\ is_authenticated
    /\ \E u \in users : u.email = last.email /\ u.id # session

\* C3: for an authenticated actor and an existing post, updatePost is permitted
\* (not Forbidden) iff the actor is the admin or the post's author; otherwise it
\* fails Forbidden and nothing of the store is changed.
C3_EditPermittedIffAdminOrAuthor ==
    [][(last'.op = "edit_post" /\ is_authenticated /\ Get(posts, last'.post_id) # {}) =>
          LET post == CHOOSE p \in Get(posts, last'.post_id) : TRUE
              permitted == current_user = AdminId \/ current_user = post.author_id
          IN /\ (ErrorKind(last') # "Forbidden") <=> permitted
             /\ ~permitted => store' = store
             /\ (permitted /\ ErrorKind(last') = "None" /\ last'.valid) =>
                    \E p \in posts' : p.id = post.id /\ p.author_id = post.author_id
                                      /\ p.date = post.date]_vars

\* C3 witness: an authenticated user who is not the admin was refused the edit
\* of an existing post.
C3_Witness ==
    /\ last.op = "edit_post"
    /\ ErrorKind(last) = "Forbidden"
    /\ is_authenticated /\ current_user # AdminId
    /\ Get(posts, last.post_id) # {}

C5_Original ==
    [][(last'.op = "add_new_post" /\ last'.valid /\ current_user = AdminId
          /\ \E p \in posts : p.title = last'.title) =>
          /\ ErrorKind(last') = "DuplicateTitle"
          /\ Cardinality(posts') = Cardinality(posts)]_vars

\* C6 as claimed: addComment by an anonymous actor fails with Forbidden and
\* creates no Comment; by an authenticated actor on an existing post it succeeds
\* and the new Comment's post_id and author_id are the post's and the actor's.
C6_Original ==
    [][(last'.op = "show_post" /\ last'.valid) =>
          /\ ~is_authenticated =>
                 ErrorKind(last') = "Forbidden" /\ comments' = comments
          /\ (is_authenticated /\ Get(posts, last'.post_id) # {}) =>
                 /\ ErrorKind(last') = "None"
                 /\ \E c \in comments' :
                       /\ c \notin comments
                       /\ comments' = comments \cup {c}
                       /\ c.post_id = last'.post_id
                       /\ c.author_id = current_user]_vars

\* the four fields submitContact validates
RequiredFields == {"name", "email", "phone_number", "message"}

\* the fields of a submission that are missing: not submitted, or empty
MissingFields(data) ==
    {k \in RequiredFields : k \notin DOMAIN data \/ data[k] = ""}

Range(f) == {f[i] : i \in DOMAIN f}

\* C7 as claimed: submitContact calls the relay only when all four fields are
\* present and non-empty; when one is empty or missing it returns
\* ValidationIncomplete with exactly the missing field names and calls no relay.
C7_Original ==
    mail.method # "" =>
        /\ mail.calls # <<>> => MissingFields(mail.data) = {}
        /\ MissingFields(mail.data) # {} =>
               /\ mail.status = 200
               /\ ~mail.is_completed
               /\ Range(mail.error_field) = MissingFields(mail.data)
               /\ mail.calls = <<>>

C9_Original ==
    \A c \in comments :
        /\ \E u \in users : u.id = c.author_id
        /\ \E p \in posts : p.id = c.post_id

\* C10: user ids are 1, 2, 3, ... in registration order, every stored post's
\* author is the admin (id 1), and no actor other than the admin is ever
\* permitted to edit a post.
C10_EveryPostByAdmin ==
    /\ Ids(users) = 1 .. Cardinality(users)
    /\ \A p \in posts : p.author_id = AdminId /\ AdminId = 1
    /\ (last.op = "edit_post" /\ current_user # AdminId) =>
           ErrorKind(last) \in {"Unauthorized", "Forbidden", "InternalServerError"}

\* C10 witness: with a post stored, a second registered user was refused its edit.
C10_Witness ==
    /\ last.op = "edit_post"
    /\ \E p \in posts : p.id = last.post_id /\ p.author_id # current_user
    /\ is_authenticated
    /\ ErrorKind(last) = "Forbidden"

====
